---- MODULE Spec2Model ----
(***************************************************************************)
(* Model of app.py: a Streamlit page that turns an uploaded GeoTIFF into   *)
(* classified polygons.  main() is re-run by Streamlit in one process;     *)
(* load_tif is memoized by st.cache_data across the runs.                  *)
(*                                                                         *)
(* Numbers.  A float is a pair <<n, d>> with d >= 0: d > 0 is the rational *)
(* n/d, <<0,0>> is NaN, <<1,0>> is +inf and <<-1,0>> is -inf.  A raster is *)
(* one row of GridCols cells (a sequence of floats); the cells of a loaded *)
(* raster are NaN or an integer 0..MaxVal.                                 *)
(***************************************************************************)
EXTENDS Integers, Sequences, FiniteSets, TLC

\* ---------------------------------------------------------------- bounds
GridCols == 3
MaxVal == 2
MaxBins == 2
EdgeDen == 2
NPaths == 2

\* ------------------------------------------------------ program constants
Uint8Mod == 256
ColourBase == 255
ColourStep == 25

\* ----------------------------------------------------------------- floats
NaN == <<0, 0>>
Num(n) == <<n, 1>>

IsNaN(x) == x[1] = 0 /\ x[2] = 0
IsInf(x) == x[1] # 0 /\ x[2] = 0
Sign(n) == IF n > 0 THEN 1 ELSE IF n < 0 THEN -1 ELSE 0

\* x < y in IEEE arithmetic: false as soon as one side is NaN
Lt(x, y) ==
    IF IsNaN(x) \/ IsNaN(y) THEN FALSE
    ELSE IF IsInf(x) \/ IsInf(y)
         THEN IF IsInf(x) /\ IsInf(y) THEN x[1] < y[1]
              ELSE IF IsInf(x) THEN x[1] < 0
              ELSE y[1] > 0
    ELSE x[1] * y[2] < y[1] * x[2]

Le(x, y) == (~IsNaN(x)) /\ (~IsNaN(y)) /\ ~Lt(y, x)
FEq(x, y) == Le(x, y) /\ Le(y, x)

\* x - y
FSub(x, y) ==
    IF IsNaN(x) \/ IsNaN(y) THEN NaN
    ELSE IF IsInf(x) THEN (IF IsInf(y) /\ y[1] = x[1] THEN NaN ELSE x)
    ELSE IF IsInf(y) THEN <<-y[1], 0>>
    ELSE <<x[1] * y[2] - y[1] * x[2], x[2] * y[2]>>

\* x / y as numpy divides arrays: a zero divisor gives nan or +-inf and a
\* RuntimeWarning, never an exception
FDiv(x, y) ==
    IF IsNaN(x) \/ IsNaN(y) THEN NaN
    ELSE IF IsInf(y) THEN (IF IsInf(x) THEN NaN ELSE <<0, 1>>)
    ELSE IF y[1] = 0 THEN <<Sign(x[1]), 0>>
    ELSE IF IsInf(x) THEN <<Sign(x[1]) * Sign(y[1]), 0>>
    ELSE <<x[1] * y[2] * Sign(y[1]), x[2] * y[1] * Sign(y[1])>>

\* an optional argument: <<>> is None, <<x>> is x
None == <<>>
Some(x) == <<x>>
IsNone(o) == Len(o) = 0

\* --------------------------------------------------------- normalize_data
NonNaNCells(g) == {c \in DOMAIN g : ~IsNaN(g[c])}

\* np.nanmin / np.nanmax: the smallest / largest non-NaN cell, and NaN (with
\* a warning) when every cell is NaN
nanmin(g) ==
    IF NonNaNCells(g) = {} THEN NaN
    ELSE g[CHOOSE c \in NonNaNCells(g) : \A e \in NonNaNCells(g) : Le(g[c], g[e])]

nanmax(g) ==
    IF NonNaNCells(g) = {} THEN NaN
    ELSE g[CHOOSE c \in NonNaNCells(g) : \A e \in NonNaNCells(g) : Le(g[e], g[c])]

normalize_data(g, mn, mx) ==
    LET min_val == IF IsNone(mn) THEN nanmin(g) ELSE mn[1]
        max_val == IF IsNone(mx) THEN nanmax(g) ELSE mx[1]
    IN  [c \in DOMAIN g |-> FDiv(FSub(g[c], min_val), FSub(max_val, min_val))]

\* ----------------------------------------------------- raster_to_polygons
\* numpy's check of the bin array: 1 when it never decreases (a single edge
\* and equal edges included), -1 when it never increases, 0 otherwise
Monotonicity(b) ==
    IF \A i \in 1..(Len(b) - 1) : Le(b[i], b[i + 1]) THEN 1
    ELSE IF \A i \in 1..(Len(b) - 1) : Le(b[i + 1], b[i]) THEN -1
    ELSE 0

\* np.searchsorted(b, x, side='left') on an ascending b; NaN sorts last
SearchSortedLeft(b, x) ==
    IF IsNaN(x) THEN Len(b)
    ELSE Cardinality({i \in 1..Len(b) : Lt(b[i], x)})

\* the call without right=True: bins[i-1] <= v < bins[i]
DigitizeLeftInclusive(x, b) ==
    IF IsNaN(x) THEN Len(b)
    ELSE Cardinality({i \in 1..Len(b) : Le(b[i], x)})

\* np.digitize(x, b, right=True) for a monotonic b.  A descending b is
\* searched reversed and the result inverted.
Digitize(x, b) ==
    IF Monotonicity(b) = -1
    THEN Len(b) - SearchSortedLeft([i \in 1..Len(b) |-> b[Len(b) + 1 - i]], x)
    ELSE SearchSortedLeft(b, x)

\* .astype(np.uint8)
AsUint8(n) == n % Uint8Mod

BinnedData(g, b) == [c \in DOMAIN g |-> AsUint8(Digitize(g[c], b))]

\* the call of shapes without its mask
MaskNothing(g) == [c \in DOMAIN g |-> TRUE]

\* mask = ~np.isnan(data)
Mask(g) == [c \in DOMAIN g |-> ~IsNaN(g[c])]

\* rasterio.features.shapes on a one-row raster: one (geometry, value) pair
\* per maximal run of neighbouring unmasked cells that hold the same value,
\* left to right.  A geometry is the set of cells it covers.
RECURSIVE ShapesFrom(_, _, _)
ShapesFrom(binned, mask, c) ==
    IF c > Len(binned) THEN <<>>
    ELSE IF ~mask[c] THEN ShapesFrom(binned, mask, c + 1)
    ELSE LET stop == CHOOSE e \in c..Len(binned) :
                        /\ \A k \in c..e : mask[k] /\ binned[k] = binned[c]
                        /\ (e < Len(binned) =>
                              ~(mask[e + 1] /\ binned[e + 1] = binned[c]))
         IN  <<[geometry |-> c..stop, value |-> binned[c]]>>
               \o ShapesFrom(binned, mask, stop + 1)

Shapes(binned, mask) == ShapesFrom(binned, mask, 1)

\* The records the loop of raster_to_polygons collects
PolygonRecords(g, b) == Shapes(BinnedData(g, b), Mask(g))

\* ----------------------------------------------------- visualize_polygons
HexDigits == <<"0", "1", "2", "3", "4", "5", "6", "7",
               "8", "9", "a", "b", "c", "d", "e", "f">>

RECURSIVE HexOfNat(_)
HexOfNat(n) ==
    IF n < 16 THEN <<HexDigits[n + 1]>>
    ELSE HexOfNat(n \div 16) \o <<HexDigits[(n % 16) + 1]>>

\* hex(n): "0x.." or "-0x.."
Hex(n) ==
    IF n < 0 THEN <<"-", "0", "x">> \o HexOfNat(-n)
    ELSE <<"0", "x">> \o HexOfNat(n)

\* s[2:]
DropTwo(s) == SubSeq(s, 3, Len(s))

\* format(s, ">02"): right-aligned in a field of 2, filled with "0"
RECURSIVE PadLeft(_)
PadLeft(s) == IF Len(s) >= 2 THEN s ELSE PadLeft(<<"0">> \o s)

\* a ramp that is one step too steep for eleven classes
RedChannelSteep(value) == ColourBase - value * (ColourStep + 1)

RedChannel(value) == ColourBase - value * ColourStep

\* f"#{hex(255 - value * 25)[2:]:>02}0000"
FillColor(value) ==
    <<"#">> \o PadLeft(DropTwo(Hex(RedChannel(value)))) \o <<"0", "0", "0", "0">>

\* ------------------------------------------------------- the bin text box
Digits == <<"0", "1", "2", "3", "4", "5", "6", "7", "8", "9">>
IsDigit(ch) == \E k \in 1..10 : Digits[k] = ch
DigitVal(ch) == (CHOOSE k \in 1..10 : Digits[k] = ch) - 1

\* the text box's default value
DefaultText ==
    <<"0", ",", "0", ".", "1", ",", "0", ".", "2", ",", "0",
      ".", "3", ",", "0", ".", "4", ",", "0", ".", "5", ",",
      "0", ".", "6", ",", "0", ".", "7", ",", "0", ".", "8",
      ",", "0", ".", "9", ",", "1", ".", "0">>

\* s.split(","): the pieces between the commas; "" splits to one empty piece
RECURSIVE Split(_)
Split(s) ==
    IF \A i \in 1..Len(s) : s[i] # ","
    THEN <<s>>
    ELSE LET k == CHOOSE i \in 1..Len(s) :
                    s[i] = "," /\ \A j \in 1..(i - 1) : s[j] # ","
         IN  <<SubSeq(s, 1, k - 1)>> \o Split(SubSeq(s, k + 1, Len(s)))

RECURSIVE NatOf(_)
NatOf(ds) ==
    IF Len(ds) = 0 THEN 0
    ELSE 10 * NatOf(SubSeq(ds, 1, Len(ds) - 1)) + DigitVal(ds[Len(ds)])

RECURSIVE Pow10(_)
Pow10(k) == IF k = 0 THEN 1 ELSE 10 * Pow10(k - 1)

\* float(tok) on text made of digits, "." and other characters: digits with
\* at most one ".", and at least one digit; anything else is a ValueError
FloatOk(tok) ==
    /\ \A i \in 1..Len(tok) : IsDigit(tok[i]) \/ tok[i] = "."
    /\ Cardinality({i \in 1..Len(tok) : tok[i] = "."}) <= 1
    /\ \E i \in 1..Len(tok) : IsDigit(tok[i])

Float(tok) ==
    LET ds == SelectSeq(tok, IsDigit)
        dot == {i \in 1..Len(tok) : tok[i] = "."}
        frac == IF dot = {} THEN 0 ELSE Len(tok) - (CHOOSE i \in dot : TRUE)
    IN  <<NatOf(ds), Pow10(frac)>>

\* list(map(float, bins_input.split(",")))
ParseOk(text) == \A i \in 1..Len(Split(text)) : FloatOk(Split(text)[i])
ParseBins(text) == [i \in 1..Len(Split(text)) |-> Float(Split(text)[i])]

\* ------------------------------------------------------------ input sets
CellValues == {NaN} \cup {Num(v) : v \in 0..MaxVal}
Grids == [1..GridCols -> CellValues]

\* explicit min_val / max_val arguments
RangeArgs == {Some(Num(v)) : v \in 0..MaxVal}

Edges == {<<k, EdgeDen>> : k \in 0..EdgeDen}
GenBins == UNION {[1..n -> Edges] : n \in 1..MaxBins}
DefaultBins == ParseBins(DefaultText)
QuarterText ==
    <<"0", ",", "0", ".", "2", "5", ",", "0", ".", "5", ",",
      "0", ".", "7", "5", ",", "1", ".", "0">>
QuarterBins == ParseBins(QuarterText)
ZigZagText == <<"0", ",", "1", ",", "0", ".", "5">>
ZigZagBins == ParseBins(ZigZagText)
HalfText == <<"0", ".", "5">>
JunkText == <<"0", ",", "x">>
\* more edges than a byte counts, all of them below 1
LongBins == [i \in 1..Uint8Mod |-> <<i - 1, 2 * Uint8Mod>>]
BinLists == GenBins \cup {DefaultBins, QuarterBins, ZigZagBins, LongBins}

\* what the user may type into the bin text box
TextInputs == {DefaultText, HalfText, JunkText, ZigZagText}

\* line 79 of main() on each of these texts
Parsed ==
    [t \in TextInputs |->
       [ok |-> ParseOk(t), bins |-> IF ParseOk(t) THEN ParseBins(t) ELSE <<>>]]

\* what the user may upload: a file's bytes decode to a raster or do not
GridOf(vals) == [c \in 1..GridCols |-> vals[((c - 1) % Len(vals)) + 1]]
RampGrid == GridOf(<<Num(0), Num(1), Num(MaxVal)>>)
FlatGrid == GridOf(<<Num(1)>>)
Raster(g) == [ok |-> TRUE, grid |-> g]
Undecodable == [ok |-> FALSE, grid |-> GridOf(<<NaN>>)]
Uploads == {Raster(RampGrid), Raster(FlatGrid), Undecodable}

Paths == 1..NPaths
TifFile(p) == [kind |-> "tif", path |-> p]
OutFile(p) == [kind |-> "geojson", path |-> p]

\* ------------------------------------------------------------------ state
VARIABLES
    pc,               \* where main() is
    uploaded_file,    \* None or the uploaded bytes
    temp_file,        \* path of the .tif copy, 0 before it exists
    bins_input,       \* the text of the bin box
    bins,
    min_val, max_val, \* the arguments normalize_data is called with
    data,
    normalized_data,
    polygons_gdf,
    row,              \* loop variable of visualize_polygons
    folium_map,       \* the GeoJson layers, each with its lambda's bound value
    rendered,         \* the fill colour st_folium got from each style function
    output_file,      \* path of the .geojson export, 0 before it exists
    err,              \* <<>> or <<stage, exception>> that left main()
    trace,            \* the stages this run of main() has entered
    io_log,           \* the file operations of this run of main()
    fs,               \* .tif temp files: path -> {} or {content}
    outfs,            \* .geojson temp files: path -> exists
    cache             \* st.cache_data of load_tif: path -> {} or {data}

locals == <<uploaded_file, temp_file, bins_input, bins, min_val, max_val, data,
            normalized_data, polygons_gdf, row, folium_map, rendered,
            output_file>>
vars == <<pc, locals, err, trace, io_log, fs, outfs, cache>>

Stages == <<"save", "parse", "load", "normalize", "classify", "visualize",
            "render", "export", "download", "cleanup">>

FreshLocals ==
    /\ uploaded_file = None /\ temp_file = 0 /\ bins_input = <<>>
    /\ bins = <<>> /\ min_val = None /\ max_val = None /\ data = <<>>
    /\ normalized_data = <<>> /\ polygons_gdf = <<>> /\ row = None
    /\ folium_map = <<>> /\ rendered = <<>> /\ output_file = 0

Init ==
    /\ pc = "start"
    /\ FreshLocals
    /\ err = <<>> /\ trace = <<>> /\ io_log = <<>>
    /\ fs = [p \in Paths |-> {}]
    /\ outfs = [p \in Paths |-> FALSE]
    /\ cache = [p \in Paths |-> {}]

\* ---------------------------------------------------------------- main()
\* a stage wrapped in try/except that carries on with the next stage
ContinueAfter(stage) ==
    LET k == CHOOSE i \in 1..Len(Stages) : Stages[i] = stage
    IN  IF k < Len(Stages) THEN Stages[k + 1] ELSE "done"

\* main() has no try/except: an exception raised in a stage leaves main()
OnError(stage) == "failed"

Enter(stage) == trace' = Append(trace, stage)
Raise(stage, exc) == pc' = OnError(stage) /\ err' = <<stage, exc>>

\* Streamlit runs the script again (a widget changed): a fresh call of main()
\* whose file_uploader holds no file: warn and return
NoFile ==
    /\ pc \in {"start", "returned", "done", "failed"}
    /\ pc' = "returned"
    /\ uploaded_file' = None /\ temp_file' = 0 /\ bins_input' = <<>>
    /\ bins' = <<>> /\ min_val' = None /\ max_val' = None /\ data' = <<>>
    /\ normalized_data' = <<>> /\ polygons_gdf' = <<>> /\ row' = None
    /\ folium_map' = <<>> /\ rendered' = <<>> /\ output_file' = 0
    /\ err' = <<>> /\ trace' = <<>> /\ io_log' = <<>>
    /\ UNCHANGED <<fs, outfs, cache>>

\* a fresh call of main() with an uploaded file: NamedTemporaryFile makes a
\* file under a name no existing file has, and the upload is written to it
SaveUpload ==
    /\ pc \in {"start", "returned", "done", "failed"}
    /\ \E up \in Uploads, p \in Paths :
         /\ fs[p] = {}
         /\ uploaded_file' = Some(up)
         /\ temp_file' = p
         /\ fs' = [fs EXCEPT ![p] = {up}]
         /\ io_log' = <<[op |-> "create", file |-> TifFile(p)],
                        [op |-> "write", file |-> TifFile(p)]>>
    /\ pc' = "parse"
    /\ bins_input' = <<>>
    /\ bins' = <<>> /\ min_val' = None /\ max_val' = None /\ data' = <<>>
    /\ normalized_data' = <<>> /\ polygons_gdf' = <<>> /\ row' = None
    /\ folium_map' = <<>> /\ rendered' = <<>> /\ output_file' = 0
    /\ err' = <<>> /\ trace' = <<"save">>
    /\ UNCHANGED <<outfs, cache>>

\* bins = list(map(float, bins_input.split(",")))
ParseBinsInput ==
    /\ pc = "parse"
    /\ Enter("parse")
    /\ \E text \in TextInputs :
         /\ bins_input' = text
         /\ \/ Parsed[text].ok /\ bins' = Parsed[text].bins /\ pc' = "load"
                /\ UNCHANGED err
            \/ ~Parsed[text].ok /\ bins' = bins /\ Raise("parse", "ValueError")
    /\ UNCHANGED <<uploaded_file, temp_file, min_val, max_val, data,
                   normalized_data, polygons_gdf, row, folium_map, rendered,
                   output_file, io_log, fs, outfs, cache>>

\* load_tif under st.cache_data: the cache is keyed by the path string alone;
\* a hit returns the stored result without opening the file
load_tif ==
    /\ pc = "load"
    /\ Enter("load")
    /\ \/ /\ cache[temp_file] # {}
          /\ data' = (CHOOSE d \in cache[temp_file] : TRUE)
          /\ pc' = "normalize"
          /\ UNCHANGED <<cache, err, io_log>>
       \/ /\ cache[temp_file] = {}
          /\ \E f \in fs[temp_file] :
               /\ f.ok
               /\ data' = f.grid
               /\ cache' = [cache EXCEPT ![temp_file] = {f.grid}]
               /\ pc' = "normalize"
               /\ io_log' = Append(io_log, [op |-> "read", file |-> TifFile(temp_file)])
               /\ UNCHANGED err
       \/ /\ cache[temp_file] = {}
          /\ \E f \in fs[temp_file] :
               /\ ~f.ok
               /\ Raise("load", "RasterioIOError")
               /\ io_log' = Append(io_log, [op |-> "read", file |-> TifFile(temp_file)])
               /\ UNCHANGED <<data, cache>>
    /\ UNCHANGED <<uploaded_file, temp_file, bins_input, bins, min_val, max_val,
                   normalized_data, polygons_gdf, row, folium_map, rendered,
                   output_file, fs, outfs>>

\* normalized_data = normalize_data(data)
Normalize ==
    /\ pc = "normalize"
    /\ Enter("normalize")
    /\ normalized_data' = normalize_data(data, min_val, max_val)
    /\ pc' = "classify"
    /\ UNCHANGED <<uploaded_file, temp_file, bins_input, bins, min_val, max_val,
                   data, polygons_gdf, row, folium_map, rendered, output_file,
                   err, io_log, fs, outfs, cache>>

\* polygons_gdf = raster_to_polygons(normalized_data, transform, bins).
\* np.digitize raises on bins that are not monotonic.  GeoDataFrame([], crs=..)
\* has no geometry column: older geopandas warns and returns the empty frame,
\* newer geopandas raises.  (st.cache_data keys this call by every argument,
\* so a hit returns what the call would compute.)
raster_to_polygons ==
    /\ pc = "classify"
    /\ Enter("classify")
    /\ \/ /\ Monotonicity(bins) = 0
          /\ Raise("classify", "ValueError")
          /\ UNCHANGED polygons_gdf
       \/ /\ Monotonicity(bins) # 0
          /\ polygons_gdf' = PolygonRecords(normalized_data, bins)
          /\ pc' = "visualize"
          /\ UNCHANGED err
       \/ /\ Monotonicity(bins) # 0
          /\ PolygonRecords(normalized_data, bins) = <<>>
          /\ Raise("classify", "ValueError")
          /\ UNCHANGED polygons_gdf
    /\ UNCHANGED <<uploaded_file, temp_file, bins_input, bins, min_val, max_val,
                   data, normalized_data, row, folium_map, rendered, output_file,
                   io_log, fs, outfs, cache>>

\* the loop of visualize_polygons: one GeoJson layer per row; the lambda's
\* default argument value=row["value"] is evaluated when the lambda is made
BoundValue(r) == r.value

visualize_polygons ==
    /\ pc = "visualize"
    /\ Enter("visualize")
    /\ folium_map' = [i \in 1..Len(polygons_gdf) |->
                        [geometry |-> polygons_gdf[i].geometry,
                         value |-> BoundValue(polygons_gdf[i])]]
    /\ row' = IF polygons_gdf = <<>> THEN None
              ELSE Some(polygons_gdf[Len(polygons_gdf)])
    /\ pc' = "render"
    /\ UNCHANGED <<uploaded_file, temp_file, bins_input, bins, min_val, max_val,
                   data, normalized_data, polygons_gdf, rendered, output_file,
                   err, io_log, fs, outfs, cache>>

\* a lambda without the default argument: it reads row when it is called
LateBoundStyle(i) == FillColor(row[1].value)

\* the style function of layer i, called with a feature: it reads its own
\* default argument
StyleFunction(i) == FillColor(folium_map[i].value)

\* st_folium(folium_map): the map is rendered, every style function is called
st_folium ==
    /\ pc = "render"
    /\ Enter("render")
    /\ rendered' = [i \in 1..Len(folium_map) |-> StyleFunction(i)]
    /\ pc' = "export"
    /\ UNCHANGED <<uploaded_file, temp_file, bins_input, bins, min_val, max_val,
                   data, normalized_data, polygons_gdf, row, folium_map,
                   output_file, err, io_log, fs, outfs, cache>>

\* output_file = NamedTemporaryFile(...); polygons_gdf.to_file(output_file.name)
Export ==
    /\ pc = "export"
    /\ Enter("export")
    /\ \E q \in Paths :
         /\ ~outfs[q]
         /\ output_file' = q
         /\ outfs' = [outfs EXCEPT ![q] = TRUE]
         /\ io_log' = io_log \o <<[op |-> "create", file |-> OutFile(q)],
                                  [op |-> "write", file |-> OutFile(q)]>>
    /\ \/ pc' = "download" /\ UNCHANGED err
       \/ Raise("export", "IOError")
    /\ UNCHANGED <<uploaded_file, temp_file, bins_input, bins, min_val, max_val,
                   data, normalized_data, polygons_gdf, row, folium_map, rendered,
                   fs, cache>>

\* with open(output_file.name, "rb") as f: st.download_button(..., f, ...)
Download ==
    /\ pc = "download"
    /\ Enter("download")
    /\ io_log' = Append(io_log, [op |-> "read", file |-> OutFile(output_file)])
    /\ \/ outfs[output_file] /\ pc' = "cleanup" /\ UNCHANGED err
       \/ ~outfs[output_file] /\ Raise("download", "FileNotFoundError")
    /\ UNCHANGED <<locals, fs, outfs, cache>>

\* a cleanup that forgets the export
UnlinkedTifOnly == {TifFile(temp_file)}

\* the files the last two lines of main() unlink
Unlinked == {TifFile(temp_file), OutFile(output_file)}

Cleanup ==
    /\ pc = "cleanup"
    /\ Enter("cleanup")
    /\ fs' = [p \in Paths |-> IF TifFile(p) \in Unlinked THEN {} ELSE fs[p]]
    /\ outfs' = [p \in Paths |-> IF OutFile(p) \in Unlinked THEN FALSE ELSE outfs[p]]
    /\ io_log' = io_log \o
         [i \in 1..Cardinality(Unlinked) |->
            [op |-> "unlink",
             file |-> IF i = 1 /\ TifFile(temp_file) \in Unlinked
                      THEN TifFile(temp_file) ELSE OutFile(output_file)]]
    /\ pc' = "done"
    /\ UNCHANGED <<locals, err, cache>>

Next ==
    \/ NoFile \/ SaveUpload \/ ParseBinsInput \/ load_tif \/ Normalize
    \/ raster_to_polygons \/ visualize_polygons \/ st_folium \/ Export
    \/ Download \/ Cleanup

Spec == Init /\ [][Next]_vars

\* ------------------------------------------- the functions called directly
\* normalize_data, raster_to_polygons and visualize_polygons applied to every
\* raster, bin list and explicit range within the bounds
InitData ==
    /\ pc = "normalize"
    /\ data \in Grids
    /\ \/ min_val = None /\ max_val = None /\ bins \in BinLists
       \/ /\ min_val \in RangeArgs \cup {None}
          /\ max_val \in RangeArgs \cup {None}
          /\ ~(min_val = None /\ max_val = None)
          /\ bins = DefaultBins
    /\ uploaded_file = None /\ temp_file = 0 /\ bins_input = <<>>
    /\ normalized_data = <<>> /\ polygons_gdf = <<>> /\ row = None
    /\ folium_map = <<>> /\ rendered = <<>> /\ output_file = 0
    /\ err = <<>> /\ trace = <<>> /\ io_log = <<>>
    /\ fs = [p \in Paths |-> {}]
    /\ outfs = [p \in Paths |-> FALSE]
    /\ cache = [p \in Paths |-> {}]

NextData == Normalize \/ raster_to_polygons \/ visualize_polygons \/ st_folium

SpecData == InitData /\ [][NextData]_vars

\* ----------------------------------------------------------------- claims
Normalized == pc \notin {"start", "returned", "parse", "load", "normalize"}
                /\ Len(normalized_data) > 0
Classified == pc \in {"visualize", "render", "export", "download", "cleanup"}
                /\ err = <<>>
OwnRange == min_val = None /\ max_val = None

StrictlyIncreasing(b) == \A i \in 1..(Len(b) - 1) : Lt(b[i], b[i + 1])
RecordsOf(c) == {i \in 1..Len(polygons_gdf) : c \in polygons_gdf[i].geometry}
Zero == Num(0)
One == Num(1)

\* the class the right-inclusive rule gives v: 0 up to the first edge, j for
\* b[j] < v <= b[j+1], Len(b) above the last edge
InClass(v, b, k) ==
    \/ k = 0 /\ Le(v, b[1])
    \/ k \in 1..(Len(b) - 1) /\ Lt(b[k], v) /\ Le(v, b[k + 1])
    \/ k = Len(b) /\ Lt(b[Len(b)], v)

\* C1 as stated: with strictly increasing bins every non-missing cell gets
\* one class in 0..len(bins): class i when bins[i-1] < v <= bins[i], class 0
\* below the first edge, and the overflow class len(bins) at or above the
\* last edge.
C1_AtOrAboveLastEdge ==
    (Classified /\ StrictlyIncreasing(bins)) =>
        \A c \in NonNaNCells(normalized_data) :
            \E i \in RecordsOf(c) :
                LET v == normalized_data[c]
                    k == polygons_gdf[i].value
                IN  /\ k \in 0..Len(bins)
                    /\ \A j \in 1..(Len(bins) - 1) :
                          (Lt(bins[j], v) /\ Le(v, bins[j + 1])) => k = j
                    /\ Lt(v, bins[1]) => k = 0
                    /\ Le(bins[Len(bins)], v) => k = Len(bins)

\* C1 amended: with strictly increasing bins every non-missing cell gets the
\* one class of the right-inclusive rule, stored as an unsigned byte: class 0
\* up to and including the first edge, class i when bins[i-1] < v <= bins[i]
\* (the last edge itself included), and the overflow class len(bins) only
\* strictly above the last edge; with fewer than 256 edges the stored class
\* is that index, in 0..len(bins).
C1_RightInclusive ==
    (Classified /\ StrictlyIncreasing(bins)) =>
        \A c \in NonNaNCells(normalized_data) :
            /\ Cardinality({k \in 0..Len(bins) :
                              InClass(normalized_data[c], bins, k)}) = 1
            /\ RecordsOf(c) # {}
            /\ \A i \in RecordsOf(c) : \A k \in 0..Len(bins) :
                  InClass(normalized_data[c], bins, k) =>
                      /\ polygons_gdf[i].value = k % Uint8Mod
                      /\ Len(bins) < Uint8Mod => polygons_gdf[i].value = k

\* a cell of value 0.5 classified with bins 0,0.25,0.5,0.75,1.0 into class 2
C1_Witness ==
    /\ Classified /\ bins = QuarterBins
    /\ \E c \in DOMAIN normalized_data :
         /\ FEq(normalized_data[c], <<1, 2>>)
         /\ \E i \in RecordsOf(c) : polygons_gdf[i].value = 2

\* C2: the polygon records partition the non-missing cells: every non-NaN
\* cell of the classified grid lies in exactly one record, whose value is the
\* cell's class index, and a NaN cell lies in no record.
C2_PolygonsPartition ==
    Classified =>
        /\ \A c \in DOMAIN normalized_data :
             IF IsNaN(normalized_data[c])
             THEN RecordsOf(c) = {}
             ELSE /\ Cardinality(RecordsOf(c)) = 1
                  /\ \A i \in RecordsOf(c) :
                        polygons_gdf[i].value
                          = AsUint8(Digitize(normalized_data[c], bins))
        /\ \A i \in 1..Len(polygons_gdf) :
             /\ polygons_gdf[i].geometry # {}
             /\ polygons_gdf[i].geometry \subseteq DOMAIN normalized_data

\* a grid with a missing cell between cells of two classes
C2_Witness ==
    /\ Classified
    /\ \E c \in DOMAIN normalized_data : IsNaN(normalized_data[c])
    /\ \E i, j \in 1..Len(polygons_gdf) :
         polygons_gdf[i].value # polygons_gdf[j].value

\* C3 as stated: classification fails, with no polygon produced, whenever the
\* bin list has fewer than 2 entries or is not strictly increasing.
C3_DegenerateBinsRejected ==
    (pc \in {"visualize", "render", "export", "failed"}
       /\ "classify" \in {trace[i] : i \in 1..Len(trace)}
       /\ (Len(bins) < 2 \/ ~StrictlyIncreasing(bins)))
    => (err # <<>> /\ polygons_gdf = <<>>)

\* C4 as stated: normalize_data with the grid's own minimum and maximum keeps
\* the shape, keeps missing cells missing and puts every other cell in [0,1].
C4_NormalizedInUnitRange ==
    (Normalized /\ OwnRange) =>
        /\ Len(normalized_data) = Len(data)
        /\ \A c \in DOMAIN data :
             IF IsNaN(data[c])
             THEN IsNaN(normalized_data[c])
             ELSE Le(Zero, normalized_data[c]) /\ Le(normalized_data[c], One)

EffectiveMin == IF IsNone(min_val) THEN nanmin(data) ELSE min_val[1]
EffectiveMax == IF IsNone(max_val) THEN nanmax(data) ELSE max_val[1]

\* C5 as stated: when max_val equals min_val, normalize_data returns a grid
\* of zeros or fails with DegenerateRangeError; no non-missing cell of the
\* result is NaN or infinite.
C5_DegenerateRangePolicy ==
    (Normalized /\ FEq(EffectiveMin, EffectiveMax)) =>
        \/ (err # <<>> /\ err[2] = "DegenerateRangeError")
        \/ \A c \in NonNaNCells(data) : FEq(normalized_data[c], Zero)

\* C6 as stated: the data load_tif returns is the raster currently stored at
\* the path, in every invocation.
C6_LoadReturnsCurrentFile ==
    (pc \in {"normalize", "classify", "visualize", "render", "export",
             "download", "cleanup"})
    => fs[temp_file] = {Raster(data)}

\* C7: main() fails fast: the stages of one invocation run in pipeline order,
\* each at most once; once a stage has raised, main() has been left with that
\* stage's error, and that stage is the last one the invocation entered.
C7_FailFast ==
    /\ trace = SubSeq(Stages, 1, Len(trace))
    /\ err # <<>> =>
         /\ pc = "failed"
         /\ trace # <<>>
         /\ err[1] = trace[Len(trace)]
    /\ pc = "failed" => err # <<>>

\* classification raised after a successful load: nothing later has run
C7_Witness ==
    /\ pc = "failed" /\ err = <<"classify", "ValueError">>
    /\ trace = <<"save", "parse", "load", "normalize", "classify">>

\* C8: one shape per polygon record, and the fill colour a shape's style
\* function returns, also once the loop is over, is the colour of that
\* record's own class value.
C8_StyleBoundToOwnValue ==
    /\ pc \in {"render", "export"} =>
         /\ Len(folium_map) = Len(polygons_gdf)
         /\ \A i \in 1..Len(folium_map) :
              /\ folium_map[i].geometry = polygons_gdf[i].geometry
              /\ StyleFunction(i) = FillColor(polygons_gdf[i].value)
    /\ pc = "export" =>
         /\ Len(rendered) = Len(polygons_gdf)
         /\ \A i \in 1..Len(rendered) :
              rendered[i] = FillColor(polygons_gdf[i].value)

\* a map of two records with different classes has been rendered, the first
\* record not in the colour of the last
C8_Witness ==
    /\ pc = "export" /\ Len(rendered) >= 2
    /\ polygons_gdf[1].value # polygons_gdf[Len(polygons_gdf)].value
    /\ rendered[1] # rendered[Len(rendered)]

Created == {io_log[i].file : i \in {k \in 1..Len(io_log) : io_log[k].op = "create"}}
Deleted == {io_log[i].file : i \in {k \in 1..Len(io_log) : io_log[k].op = "unlink"}}

\* C9: when main() returns without an error, the two temporary files it made
\* (the .tif copy and the .geojson export) are deleted and no operation on a
\* file follows its unlink; a run without an upload makes no file and enters
\* no stage.
C9_TempFilesRemoved ==
    /\ pc = "done" =>
         /\ Created = {TifFile(temp_file), OutFile(output_file)}
         /\ Deleted = Created
         /\ fs[temp_file] = {}
         /\ ~outfs[output_file]
    /\ \A i, j \in 1..Len(io_log) :
         (i < j /\ io_log[i].op = "unlink") => io_log[j].file # io_log[i].file
    /\ pc = "returned" => (io_log = <<>> /\ trace = <<>>)

\* a complete run: both files were made, used and are gone
C9_Witness ==
    /\ pc = "done" /\ trace = Stages
    /\ \E i \in 1..Len(io_log) :
         io_log[i] = [op |-> "read", file |-> OutFile(output_file)]

IsHexDigit(ch) == \E k \in 1..16 : HexDigits[k] = ch
WellFormedColour(s) ==
    /\ Len(s) = 7
    /\ s[1] = "#"
    /\ \A i \in 2..7 : IsHexDigit(s[i])

\* C10: with the default bins and data normalized by its own minimum and
\* maximum, every polygon's class is in 0..10, the red term 255 - value * 25
\* is in 0..255, and every fill colour is "#" and six hexadecimal digits.
C10_DefaultColoursWellFormed ==
    (bins = DefaultBins /\ OwnRange) =>
        /\ \A i \in 1..Len(polygons_gdf) :
             /\ polygons_gdf[i].value \in 0..(Len(DefaultBins) - 1)
             /\ RedChannel(polygons_gdf[i].value) \in 0..ColourBase
        /\ \A i \in 1..Len(rendered) : WellFormedColour(rendered[i])

\* the top class 10 and the bottom class 0 rendered as #050000 and #ff0000
C10_Witness ==
    /\ bins = DefaultBins /\ OwnRange /\ pc = "export"
    /\ Len(DefaultBins) = 11
    /\ \E i, j \in 1..Len(rendered) :
         /\ polygons_gdf[i].value = 10
         /\ rendered[i] = <<"#", "0", "5", "0", "0", "0", "0">>
         /\ polygons_gdf[j].value = 0
         /\ rendered[j] = <<"#", "f", "f", "0", "0", "0", "0">>

====
